---- MODULE Spec2Model ----
(***************************************************************************)
(* Katube downloader: the Flask job registry (app.py) and the download     *)
(* pipeline (src/simple_pipeline.py, src/gcp_uploader.py).                 *)
(*                                                                         *)
(* Spec          the web application: /process, /process_channel,          *)
(*               /cleanup, /result and the two background workers driving  *)
(*               the pipeline with their own progress callbacks.           *)
(* PipelineSpec  SimpleDownloadPipeline used as a library: process_url     *)
(*               called with any max_videos and any progress callback      *)
(*               (one that may raise included).                            *)
(***************************************************************************)
EXTENDS Integers, Sequences, FiniteSets, TLC

\* ------------------------------------------------------------ bounds
\* Longest channel whose videos behave independently of each other.
MaxVideos == 2
\* Length of the long channels (all videos behaving alike).
BigChannel == 10
\* Largest max_videos argument a library caller passes, besides the default.
MaxCap == 1
\* How long the clock runs, in ticks.
MaxClock == 7
\* Ticks of the clock in one second.
TicksPerSecond == 2
\* Pieces a URL text is made of, at most.
MaxPieces == 2

\* ------------------------------------------------- program constants
DefaultMaxVideos == 2500
ProgressCap == 90
FinalizingProgress == 95

JobIds == {"j1"}

\* Worker threads running at the same time, each with a pipeline of its own.
Workers == {"w1", "w2"}

\* A URL, by what the substring tests of the code see in it:
\* chan  - its lower-cased text holds '/channel/', '/c/', '/user/', '/@' or '/playlist?'
\* watch - it holds 'youtube.com/watch' or 'youtu.be/'
URLs == [chan : BOOLEAN, watch : BOOLEAN]

\* How the collaborators answer for one video.
\*   info_error    get_video_info raises
\*   dl_error      download raises
\*   audio_up_fail upload_file of the audio returns success=False
\*   meta_up_fail  upload_file of the sidecar returns success=False
\*   rm_audio_fail audio_path.unlink() raises
\*   rm_meta_fail  metadata_file.unlink() raises
\*   ok            every call succeeds
LocalKinds == {"ok", "info_error", "dl_error"}
UploadKinds == {"audio_up_fail", "meta_up_fail", "rm_audio_fail", "rm_meta_fail"}
Kinds == LocalKinds \cup UploadKinds

Min(a, b) == IF a <= b THEN a ELSE b

RECURSIVE SeqsUpTo(_, _)
SeqsUpTo(S, n) ==
    IF n = 0 THEN {<<>>}
    ELSE LET shorter == SeqsUpTo(S, n - 1)
         IN  shorter \cup {Append(s, x) : s \in {t \in shorter : Len(t) = n - 1}, x \in S}

\* The lists the channel enumerator may return.
Channels ==
    SeqsUpTo(Kinds, MaxVideos) \cup {[k \in 1..BigChannel |-> x] : x \in Kinds}

\* dict.get(key, default)
Get(d, k, default) == IF k \in DOMAIN d THEN d[k] ELSE default

\* dict.update(e)
Update(d, e) == e @@ d

VARIABLES
    active_jobs,        \* keys of the active_jobs dict
    job,                \* the JobStatus objects, by job id
    job_lock,           \* "free" or the id of the worker inside `with job_lock`
    stored,             \* /process_channel: "idle", "thread_started", "stored"
    runner,             \* who drives the pipeline, with its arguments
    pc,                 \* position of the worker / caller
    writes,             \* attribute assignments of the JobStatus call in progress
    missed,             \* a worker update found the job id absent from active_jobs
    exc,                \* str(e) of the exception being handled
    gcp,                \* gcp_uploader.is_available()
    sessions,           \* session names created by create_session, in order
    video_urls,         \* the (capped) list being processed
    idx,                \* videos of the list already finished
    vres,               \* result dict of the video being processed
    downloaded_videos,
    failed_videos,
    result,             \* what process_url returned (<<>> before it returns)
    local,              \* local files: <<video, "audio" | "meta">>
    remote,             \* objects in the bucket
    removed,            \* local files unlinked by the pipeline
    created,            \* local files ever written
    cb_calls,           \* (index, success) of every progress_callback invocation
    enumerated,         \* the list the channel enumerator returned
    processed,          \* positions handed to download_single_video, in call order
    calls,              \* (operation, position) of every collaborator call, in order
    response,           \* the last HTTP response: handler, status code, JSON body
    clock,              \* datetime.now(), in ticks
    session_dir,        \* self.session_dir of the pipeline of each worker (SessionSpec)
    url_text,           \* the characters of the URL handed to the channel worker (DispatchSpec)
    is_channel,         \* is_channel of process_channel_background (<<>> before it is computed)
    dispatched          \* the processor process_url chose for url_text

regVars == <<active_jobs, job, job_lock, stored, writes, missed>>
fsVars == <<local, remote, removed, created>>
loopVars == <<video_urls, idx, vres, downloaded_videos, failed_videos, cb_calls,
              enumerated, processed, calls>>
pipeVars == <<gcp, sessions, result>>
sessVars == <<clock, session_dir>>
dispVars == <<url_text, is_channel, dispatched>>
vars == <<regVars, fsVars, loopVars, pipeVars, runner, pc, exc, response, sessVars,
          dispVars>>

\* ------------------------------------------------------------ JobStatus

\* JobStatus.__init__
JobStatus ==
    [status |-> "waiting", progress |-> 0, message |-> "Iniciando processamento...",
     end_time |-> "None", results |-> <<>>, error |-> "None"]

\* JobStatus.update: three attribute assignments, in this order
UpdateWrites(status, progress, message) ==
    << <<"status", status>>, <<"progress", progress>>, <<"message", message>> >>

\* JobStatus.complete
CompleteWrites(results) ==
    << <<"status", "completed">>, <<"progress", 100>>,
       <<"message", "Processamento concluido com sucesso!">>,
       <<"end_time", "now">>, <<"results", <<results>> >> >>

\* JobStatus.fail
FailWrites(error) ==
    << <<"status", "failed">>, <<"progress", 0>>, <<"message", "Erro: " \o error>>,
       <<"end_time", "now">>, <<"error", error>> >>

NoResponse == [handler |-> "none", code |-> 0, body |-> <<>>]

NoRunner == [kind |-> "none", url |-> [chan |-> FALSE, watch |-> FALSE],
             callback |-> "none", max_videos |-> DefaultMaxVideos, immediate_upload |-> TRUE,
             session_name |-> <<>>]

\* data.get('session_name'): none, or a name the submitter chose
SessionNames == {<<>>, <<"my_session">>}

Init ==
    /\ active_jobs = {}
    /\ job = [j \in JobIds |-> JobStatus]
    /\ job_lock = "free"
    /\ stored = [j \in JobIds |-> "idle"]
    /\ runner = [j \in JobIds |-> NoRunner]
    /\ pc = [j \in JobIds |-> "idle"]
    /\ writes = [j \in JobIds |-> <<>>]
    /\ missed = [j \in JobIds |-> FALSE]
    /\ exc = [j \in JobIds |-> "None"]
    /\ gcp = [j \in JobIds |-> FALSE]
    /\ sessions = [j \in JobIds |-> <<>>]
    /\ video_urls = [j \in JobIds |-> <<>>]
    /\ idx = [j \in JobIds |-> 0]
    /\ vres = [j \in JobIds |-> <<>>]
    /\ downloaded_videos = [j \in JobIds |-> <<>>]
    /\ failed_videos = [j \in JobIds |-> <<>>]
    /\ result = [j \in JobIds |-> <<>>]
    /\ local = {}
    /\ remote = {}
    /\ removed = {}
    /\ created = {}
    /\ cb_calls = [j \in JobIds |-> <<>>]
    /\ enumerated = [j \in JobIds |-> <<>>]
    /\ processed = [j \in JobIds |-> <<>>]
    /\ calls = [j \in JobIds |-> <<>>]
    /\ response = NoResponse
    /\ clock = 0
    /\ session_dir = [w \in Workers |-> <<>>]
    /\ url_text = <<>>
    /\ is_channel = <<>>
    /\ dispatched = "none"

\* The worker is between statements: no JobStatus call in progress, lock released.
Ready(j) == writes[j] = <<>> /\ job_lock # j

\* One attribute assignment of the JobStatus method in progress.
SetAttr(j) ==
    /\ writes[j] # <<>>
    /\ job' = [job EXCEPT ![j] = [@ EXCEPT ![Head(writes[j])[1]] = Head(writes[j])[2]]]
    /\ writes' = [writes EXCEPT ![j] = Tail(@)]
    /\ UNCHANGED <<active_jobs, job_lock, stored, missed, fsVars, loopVars, pipeVars,
                   runner, response, sessVars, dispVars, pc, exc>>

\* Leaving a `with job_lock:` block.
ReleaseLock(j) ==
    /\ job_lock = j
    /\ writes[j] = <<>>
    /\ job_lock' = "free"
    /\ UNCHANGED <<active_jobs, job, stored, writes, missed, fsVars, loopVars, pipeVars,
                   runner, response, sessVars, dispVars, pc, exc>>

\* Starting a JobStatus call on the record: its assignments are queued, then run
\* one at a time by SetAttr. `more` are plain attribute assignments that follow.
Begin(j, call, more) ==
    /\ writes' = [writes EXCEPT ![j] = call \o more]
    /\ UNCHANGED missed

\* `with job_lock: if job_id in active_jobs: <call>; <more>`
LockedCall(j, call, more) ==
    /\ job_lock = "free"
    /\ job_lock' = j
    /\ IF j \in active_jobs
       THEN Begin(j, call, more)
       ELSE missed' = [missed EXCEPT ![j] = TRUE] /\ UNCHANGED writes

\* ------------------------------------------------------------ HTTP handlers

\* the URL checks of /process
ProcessUrlValid(url) == url.watch

\* the URL checks of /process_channel
ProcessChannelValid(url) == url.chan \/ url.watch

\* A URL none of the substring tests matches.
NoUrl == [chan |-> FALSE, watch |-> FALSE]

\* The bodies of a POST: no JSON body at all (get_json() gives nothing to call
\* .get on), a body whose URL is absent or empty, a body with a URL.
Requests ==
    {[kind |-> "no_json", url |-> NoUrl], [kind |-> "blank", url |-> NoUrl]}
        \cup {[kind |-> "url", url |-> u] : u \in URLs}

\* A rejection that comes after the record was stored.
RejectAfterStore(j, handler, code, error) ==
    /\ response' = [handler |-> handler, code |-> code, body |-> [error |-> error]]
    /\ active_jobs' = active_jobs \cup {j}
    /\ UNCHANGED <<job, job_lock, stored, writes, missed, fsVars, loopVars, pipeVars,
                   runner, pc, exc, sessVars, dispVars>>

\* return jsonify({'error': ..}), code: nothing but the response is produced
Reject(j, handler, code, error) ==
    /\ response' = [handler |-> handler, code |-> code, body |-> [error |-> error]]
    /\ UNCHANGED <<regVars, fsVars, loopVars, pipeVars, runner, pc, exc, sessVars, dispVars>>

\* The model follows one job: requests arrive before it is submitted or after
\* its worker has returned, and only the first kind can be given its id.
Arrives(j) == runner[j].kind = "none" \/ (pc[j] = "done" /\ Ready(j))

\* POST /process with body req, given job id j if it is accepted: the URL
\* checks; for a URL that passes, the record is stored, then the thread started.
ProcessUrlRequest(j, req) ==
    IF req.kind = "no_json"
    THEN Reject(j, "process", 500, "no JSON body")
    ELSE IF req.kind = "blank"
    THEN Reject(j, "process", 400, "URL e obrigatoria")
    ELSE IF ~ProcessUrlValid(req.url)
    THEN Reject(j, "process", 400, "URL invalida")
    ELSE /\ runner[j].kind = "none"
         /\ job_lock = "free"
         /\ \E session_name \in SessionNames :
               runner' = [runner EXCEPT ![j] =
                             [kind |-> "process", url |-> req.url, callback |-> "url_cb",
                              max_videos |-> DefaultMaxVideos, immediate_upload |-> TRUE,
                              session_name |-> session_name]]
         /\ job' = [job EXCEPT ![j] = JobStatus]
         /\ active_jobs' = active_jobs \cup {j}
         /\ pc' = [pc EXCEPT ![j] = "u_lookup"]
         /\ response' = [handler |-> "process", code |-> 200, body |-> [job_id |-> j]]
         /\ UNCHANGED <<job_lock, stored, writes, missed, fsVars, loopVars, pipeVars, exc,
                        sessVars, dispVars>>

\* POST /process
process_url(j) == Arrives(j) /\ \E req \in Requests : ProcessUrlRequest(j, req)

\* POST /process_channel with body req, given job id j if it is accepted, up to
\* job_thread.start(): the URL checks; for a URL that passes, the thread runs
\* and the record is not stored yet.
ProcessChannelRequest(j, req) ==
    IF req.kind = "no_json"
    THEN Reject(j, "process_channel", 500, "no JSON body")
    ELSE IF req.kind = "blank"
    THEN Reject(j, "process_channel", 400, "URL is required")
    ELSE IF ~ProcessChannelValid(req.url)
    THEN Reject(j, "process_channel", 400, "Please provide a valid URL")
    ELSE /\ runner[j].kind = "none"
         /\ runner' = [runner EXCEPT ![j] =
                          [kind |-> "channel", url |-> req.url, callback |-> "channel_cb",
                           max_videos |-> DefaultMaxVideos, immediate_upload |-> TRUE,
                           session_name |-> <<>>]]
         /\ stored' = [stored EXCEPT ![j] = "thread_started"]
         /\ pc' = [pc EXCEPT ![j] = "c_start"]
         /\ UNCHANGED <<active_jobs, job, job_lock, writes, missed, fsVars, loopVars,
                        pipeVars, exc, response, sessVars, dispVars>>

\* POST /process_channel, up to job_thread.start()
process_channel(j) == Arrives(j) /\ \E req \in Requests : ProcessChannelRequest(j, req)

\* POST /process_channel, the rest: `with job_lock: active_jobs[job_id] = JobStatus(..)`
\* and the response
process_channel_store(j) ==
    /\ stored[j] = "thread_started"
    /\ job_lock = "free"
    /\ job' = [job EXCEPT ![j] = JobStatus]
    /\ active_jobs' = active_jobs \cup {j}
    /\ stored' = [stored EXCEPT ![j] = "stored"]
    /\ response' = [handler |-> "process_channel", code |-> 200,
                    body |-> [job_id |-> j, status |-> "started"]]
    /\ UNCHANGED <<job_lock, writes, missed, fsVars, loopVars, pipeVars, runner, pc, exc,
                   sessVars, dispVars>>

\* A cleanup that deletes without looking: `del active_jobs[job_id]` raises
\* KeyError for an id that is not in the registry and the request fails.
cleanup_job_unchecked(j) ==
    /\ job_lock = "free"
    /\ active_jobs' = active_jobs \ {j}
    /\ response' = IF j \in active_jobs
                   THEN [handler |-> "cleanup", code |-> 200,
                         body |-> [message |-> "Job removido"]]
                   ELSE [handler |-> "cleanup", code |-> 500, body |-> [error |-> "KeyError"]]
    /\ UNCHANGED <<job, job_lock, stored, writes, missed, fsVars, loopVars, pipeVars,
                   runner, pc, exc, sessVars, dispVars>>

\* POST /cleanup/<job_id>: `with job_lock: if job_id in active_jobs: del ..`
cleanup_job(j) ==
    /\ job_lock = "free"
    /\ active_jobs' = IF j \in active_jobs THEN active_jobs \ {j} ELSE active_jobs
    /\ response' = [handler |-> "cleanup", code |-> 200, body |-> [message |-> "Job removido"]]
    /\ UNCHANGED <<job, job_lock, stored, writes, missed, fsVars, loopVars, pipeVars,
                   runner, pc, exc, sessVars, dispVars>>

\* get_result.clean_for_json on a pipeline result: dicts and lists are rebuilt
\* entry by entry, str / int / float / bool / None values are kept
clean_for_json(obj) ==
    [k \in DOMAIN obj |->
        IF k \in {"downloaded_videos", "failed_videos"}
        THEN [i \in DOMAIN obj[k] |-> [f \in DOMAIN obj[k][i] |-> obj[k][i][f]]]
        ELSE IF k \in {"gcp_upload", "download_summary"}
        THEN [f \in DOMAIN obj[k] |-> obj[k][f]]
        ELSE obj[k]]

\* what get_result answers for the registry and record as they are
GetResultResponse(j) ==
    IF j \notin active_jobs
    THEN [handler |-> "result", code |-> 404, body |-> [error |-> "Job nao encontrado"]]
    ELSE IF job[j].status # "completed"
    THEN [handler |-> "result", code |-> 400,
          body |-> [error |-> "Job ainda nao foi concluido"]]
    ELSE LET results == IF job[j].results # <<>> THEN clean_for_json(job[j].results[1])
                        ELSE <<>>
         IN  [handler |-> "result", code |-> 200,
              body |-> [job_id |-> j, status |-> job[j].status, results |-> results,
                        gcp_upload |-> Get(results, "gcp_upload", <<>>)]]

\* GET /result/<job_id>, the whole handler inside `with job_lock`
get_result(j) ==
    /\ job_lock = "free"
    /\ response' = GetResultResponse(j)
    /\ UNCHANGED <<regVars, fsVars, loopVars, pipeVars, runner, pc, exc, sessVars, dispVars>>

\* Where process_url returns to.
AfterPipeline(kind) ==
    CASE kind = "process" -> "u_after"
      [] kind = "channel" -> "c_after"
      [] OTHER -> "done"

\* ------------------------------------------- process_youtube_url_background

\* job = active_jobs[job_id], outside the try and outside the lock
u_lookup(j) ==
    /\ pc[j] = "u_lookup"
    /\ pc' = [pc EXCEPT ![j] = IF j \in active_jobs THEN "u_ctor" ELSE "crashed"]
    /\ exc' = [exc EXCEPT ![j] = IF j \in active_jobs THEN @ ELSE "KeyError"]
    /\ UNCHANGED <<regVars, fsVars, loopVars, pipeVars, runner, response, sessVars, dispVars>>

\* SimpleDownloadPipeline(...), then job.update("downloading", 10, ...)
u_ctor(j) ==
    /\ pc[j] = "u_ctor"
    /\ Ready(j)
    /\ \E ok \in BOOLEAN, avail \in BOOLEAN :
          IF ok
          THEN /\ gcp' = [gcp EXCEPT ![j] = avail]
               /\ Begin(j, UpdateWrites("downloading", 10, "Iniciando download..."), <<>>)
               /\ pc' = [pc EXCEPT ![j] = "u_session"]
               /\ UNCHANGED exc
          ELSE /\ ~avail
               /\ exc' = [exc EXCEPT ![j] = "pipeline init error"]
               /\ pc' = [pc EXCEPT ![j] = "u_except"]
               /\ UNCHANGED <<gcp, writes, missed>>
    /\ UNCHANGED <<active_jobs, job, job_lock, stored, fsVars, loopVars, sessions, result,
                   runner, response, sessVars, dispVars>>

\* options.get('session_name') or f"web_session_{...}"
WebSessionName(j) ==
    IF runner[j].session_name # <<>> THEN runner[j].session_name[1] ELSE "web_session"

\* session_dir = pipeline.create_session(session_name)
u_session(j) ==
    /\ pc[j] = "u_session"
    /\ Ready(j)
    /\ \E ok \in BOOLEAN :
          IF ok
          THEN /\ sessions' = [sessions EXCEPT ![j] = Append(@, WebSessionName(j))]
               /\ pc' = [pc EXCEPT ![j] = "p_start"]
               /\ UNCHANGED exc
          ELSE /\ exc' = [exc EXCEPT ![j] = "mkdir error"]
               /\ pc' = [pc EXCEPT ![j] = "u_except"]
               /\ UNCHANGED sessions
    /\ UNCHANGED <<regVars, fsVars, loopVars, gcp, result, runner, response, sessVars, dispVars>>

\* job.update("finalizing", 95, ...)
u_finalizing(j) ==
    /\ pc[j] = "u_after"
    /\ Ready(j)
    /\ Begin(j, UpdateWrites("finalizing", FinalizingProgress, "Finalizando processamento..."),
             <<>>)
    /\ pc' = [pc EXCEPT ![j] = "u_completed"]
    /\ UNCHANGED <<active_jobs, job, job_lock, stored, fsVars, loopVars, pipeVars, runner,
                   response, sessVars, dispVars, exc>>

\* uploaded_to_gcp flags set among the results of a list
UploadedCount(videos) ==
    Cardinality({k \in 1..Len(videos) : Get(videos[k], "uploaded_to_gcp", FALSE)})

\* the message of the "completed" update of process_youtube_url_background
UrlCompletedMessage(r, gcp_available) ==
    IF gcp_available
    THEN LET is_video == Get(r, "type", "None") = "video"
             downloaded == Get(r, "downloaded_videos", <<>>)
             total_processed == IF is_video THEN 1 ELSE Len(downloaded)
             uploaded_count == IF is_video
                               THEN (IF Get(r, "uploaded_to_gcp", FALSE) THEN 1 ELSE 0)
                               ELSE UploadedCount(downloaded)
         IN  IF uploaded_count = total_processed THEN "concluido: todos enviados para GCP"
             ELSE IF uploaded_count > 0 THEN "concluido: parte enviada para GCP"
             ELSE "concluido: uploads GCP falharam"
    ELSE "concluido: GCP nao configurado"

\* download_summary added to the result, then job.update("completed", 100, ...)
u_completed(j) ==
    /\ pc[j] = "u_completed"
    /\ Ready(j)
    /\ result' = [result EXCEPT ![j] =
                     <<Update(@[1], [download_summary |-> [gcp_available |-> gcp[j]]])>>]
    /\ Begin(j, UpdateWrites("completed", 100, UrlCompletedMessage(result[j][1], gcp[j])),
             <<>>)
    /\ pc' = [pc EXCEPT ![j] = "u_complete"]
    /\ UNCHANGED <<active_jobs, job, job_lock, stored, fsVars, loopVars, gcp, sessions,
                   runner, response, sessVars, dispVars, exc>>

\* job.complete(result) raising, the `except` of the worker taking over.
u_complete_raises(j) ==
    /\ pc[j] = "u_complete"
    /\ Ready(j)
    /\ exc' = [exc EXCEPT ![j] = "complete error"]
    /\ pc' = [pc EXCEPT ![j] = "u_except"]
    /\ UNCHANGED <<regVars, fsVars, loopVars, pipeVars, runner, response, sessVars, dispVars>>

\* job.complete(result)
u_complete(j) ==
    /\ pc[j] = "u_complete"
    /\ Ready(j)
    /\ Begin(j, CompleteWrites(result[j][1]), <<>>)
    /\ pc' = [pc EXCEPT ![j] = "done"]
    /\ UNCHANGED <<active_jobs, job, job_lock, stored, fsVars, loopVars, pipeVars, runner,
                   response, sessVars, dispVars, exc>>

\* except Exception as e: job.fail(str(e))
u_except(j) ==
    /\ pc[j] = "u_except"
    /\ Ready(j)
    /\ Begin(j, FailWrites(exc[j]), <<>>)
    /\ pc' = [pc EXCEPT ![j] = "done"]
    /\ UNCHANGED <<active_jobs, job, job_lock, stored, fsVars, loopVars, pipeVars, runner,
                   response, sessVars, dispVars, exc>>

\* ----------------------------------------------- process_channel_background

\* is_channel, then `with job_lock: if job_id in active_jobs: update('downloading', 10, ..)`
c_start(j) ==
    /\ pc[j] = "c_start"
    /\ Ready(j)
    /\ LockedCall(j, UpdateWrites("downloading", 10,
                                  IF runner[j].url.chan
                                  THEN "Iniciando processamento do canal..."
                                  ELSE "Iniciando processamento do video..."), <<>>)
    /\ pc' = [pc EXCEPT ![j] = "c_ctor"]
    /\ UNCHANGED <<active_jobs, job, stored, fsVars, loopVars, pipeVars, runner, response,
                   sessVars, dispVars, exc>>

\* pipeline = SimpleDownloadPipeline(...)
c_ctor(j) ==
    /\ pc[j] = "c_ctor"
    /\ Ready(j)
    /\ \E ok \in BOOLEAN, avail \in BOOLEAN :
          IF ok
          THEN /\ gcp' = [gcp EXCEPT ![j] = avail]
               /\ pc' = [pc EXCEPT ![j] = "p_start"]
               /\ UNCHANGED exc
          ELSE /\ ~avail
               /\ exc' = [exc EXCEPT ![j] = "pipeline init error"]
               /\ pc' = [pc EXCEPT ![j] = "c_except"]
               /\ UNCHANGED gcp
    /\ UNCHANGED <<regVars, fsVars, loopVars, sessions, result, runner, response, sessVars,
                   dispVars>>

\* if result.get('success', False): ... else fall through to `return result`
c_after(j) ==
    /\ pc[j] = "c_after"
    /\ Ready(j)
    /\ pc' = [pc EXCEPT ![j] =
                 IF Get(result[j][1], "success", FALSE)
                 THEN (IF gcp[j] THEN "c_finalizing" ELSE "c_final")
                 ELSE "done"]
    /\ UNCHANGED <<regVars, fsVars, loopVars, pipeVars, runner, response, sessVars, dispVars, exc>>

\* `with job_lock: if job_id in active_jobs: update('finalizing', 95, ..)`
c_finalizing(j) ==
    /\ pc[j] = "c_finalizing"
    /\ Ready(j)
    /\ LockedCall(j, UpdateWrites("finalizing", FinalizingProgress,
                                  "Finalizando uploads para GCP..."), <<>>)
    /\ pc' = [pc EXCEPT ![j] = "c_final"]
    /\ UNCHANGED <<active_jobs, job, stored, fsVars, loopVars, pipeVars, runner, response,
                   sessVars, dispVars, exc>>

\* result['gcp_upload'], built when the store is available
WithGcpUpload(r, gcp_available) ==
    IF gcp_available
    THEN LET downloaded == Get(r, "downloaded_videos", <<>>)
             uploaded_count == UploadedCount(downloaded)
         IN  Update(r, [gcp_upload |->
                           [success |-> uploaded_count > 0,
                            uploaded_count |-> uploaded_count,
                            total_files |-> Len(downloaded),
                            failed_count |-> Len(downloaded) - uploaded_count]])
    ELSE r

\* A final update that reports the record as still being processed.
ChannelFinalCallProcessing(r) == UpdateWrites("processing", 100, "Canal processado")

\* The final update of process_channel_background, for a result r.
ChannelFinalCall(r) ==
    IF Get(r, "success", FALSE)
    THEN LET sent == Get(Get(r, "gcp_upload", <<>>), "success", FALSE)
         IN  UpdateWrites("completed", 100,
                 IF Get(r, "type", "None") = "channel"
                 THEN (IF sent THEN "Canal processado e enviado para GCP"
                               ELSE "Canal processado (GCP: nao configurado)")
                 ELSE (IF sent THEN "Video baixado e enviado para GCP"
                               ELSE "Video baixado (GCP: nao configurado)"))
    ELSE UpdateWrites("failed", 0, "Erro: " \o Get(r, "error", "Erro desconhecido"))

\* gcp_upload summary, then `with job_lock: if job_id in active_jobs:` the final
\* update and `active_jobs[job_id].results = result`
c_final(j) ==
    /\ pc[j] = "c_final"
    /\ Ready(j)
    /\ LET r == WithGcpUpload(result[j][1], gcp[j])
       IN  /\ result' = [result EXCEPT ![j] = <<r>>]
           /\ LockedCall(j, ChannelFinalCall(r), << <<"results", <<r>> >> >>)
    /\ pc' = [pc EXCEPT ![j] = "done"]
    /\ UNCHANGED <<active_jobs, job, stored, fsVars, loopVars, gcp, sessions, runner,
                   response, sessVars, dispVars, exc>>

\* except Exception as e: `with job_lock: if job_id in active_jobs:`
\* update('failed', 0, ..) and `.error = str(e)`
c_except(j) ==
    /\ pc[j] = "c_except"
    /\ Ready(j)
    /\ LockedCall(j, UpdateWrites("failed", 0, "Erro: " \o exc[j]), << <<"error", exc[j]>> >>)
    /\ pc' = [pc EXCEPT ![j] = "done"]
    /\ UNCHANGED <<active_jobs, job, stored, fsVars, loopVars, pipeVars, runner, response,
                   sessVars, dispVars, exc>>

\* ------------------------------------------------------ progress callbacks

\* (ci, tv, k) within the model's range for which the double product
\* (ci / tv) * k falls just below the exact quotient, so int() gives one less.
RoundedDown == {<<7, 10, 90>>}

\* int((current_index / total_videos) * k)
Scaled(ci, tv, k) == (ci * k) \div tv - (IF <<ci, tv, k>> \in RoundedDown THEN 1 ELSE 0)

\* progress_percent of process_youtube_url_background.progress_callback
UrlProgress(ci, tv) == Min(ProgressCap, Scaled(ci, tv, 80) + 10)

\* A percentage of the whole range, without the cap.
ChannelProgressUncapped(ci, tv) == Scaled(ci, tv, 100)

\* progress_percent of process_channel_background.progress_callback
ChannelProgress(ci, tv) == Min(ProgressCap, Scaled(ci, tv, 90))

\* One invocation progress_callback(video_url, success, len(video_urls), i+1).
ProgressCallback(j, success) ==
    LET ci == idx[j] + 1
        tv == Len(video_urls[j])
    IN  /\ cb_calls' = [cb_calls EXCEPT ![j] = Append(@, <<ci, success>>)]
        /\ CASE runner[j].callback = "url_cb" ->
                  /\ Begin(j, UpdateWrites("processing", UrlProgress(ci, tv),
                                  IF success THEN "Video processado e enviado"
                                  ELSE IF ci > 1 THEN "Baixando video (pode demorar)"
                                  ELSE "Baixando video"), <<>>)
                  /\ UNCHANGED job_lock
             [] runner[j].callback = "channel_cb" ->
                  LockedCall(j, UpdateWrites("processing", ChannelProgress(ci, tv),
                                             "Processando canal..."), <<>>)
             [] OTHER -> UNCHANGED <<job_lock, writes, missed>>

\* Whether a callback may raise: the two callbacks of app.py do not.
MayRaise(callback) == IF callback = "generic" THEN BOOLEAN ELSE {FALSE}

\* ------------------------------------------------- SimpleDownloadPipeline

File(j, v, what) == <<j, v, what>>

\* the video the loop is at, and how the collaborators answer for it
Cur(j) == idx[j] + 1
Kind(j) == video_urls[j][Cur(j)]

\* Answers consulted when the store is unavailable: no upload, no unlink is made.
KindsFor(gcp_available) == IF gcp_available THEN Kinds ELSE LocalKinds

ChannelsFor(gcp_available) ==
    {c \in Channels : \A k \in 1..Len(c) : c[k] \in KindsFor(gcp_available)}

\* A cap that lets one URL too many through.
LimitVideosOneMore(urls, max_videos) ==
    IF Len(urls) > max_videos THEN SubSeq(urls, 1, max_videos + 1) ELSE urls

\* video_urls[:max_videos] when len(video_urls) > max_videos
LimitVideos(urls, max_videos) ==
    IF Len(urls) > max_videos THEN SubSeq(urls, 1, max_videos) ELSE urls

\* process_url: result['type'], then session_name added
Finish(j, r, type) == Update(r, [type |-> type, session_name |-> sessions[j][Len(sessions[j])]])

\* the dict returned by the `except` of download_channel_videos / process_url
Failure(error) ==
    [success |-> FALSE, error |-> error, downloaded_count |-> 0, failed_count |-> 0]

\* next iteration of `for i, video_url in enumerate(video_urls)`, or the end of the loop
LoopNext(j) == IF idx[j] + 1 < Len(video_urls[j]) THEN "v_info" ELSE "ch_summary"

\* process_url: create_session(), is_channel, dispatch
p_start(j) ==
    /\ pc[j] = "p_start"
    /\ Ready(j)
    /\ \E ok \in BOOLEAN :
          IF ~ok
          THEN /\ result' = [result EXCEPT ![j] =
                                <<Update(Failure("mkdir error"), [type |-> "unknown"])>>]
               /\ pc' = [pc EXCEPT ![j] = AfterPipeline(runner[j].kind)]
               /\ UNCHANGED <<sessions, video_urls>>
          ELSE /\ sessions' = [sessions EXCEPT ![j] = Append(@, "download_session")]
               /\ UNCHANGED result
               /\ IF runner[j].url.chan
                  THEN /\ pc' = [pc EXCEPT ![j] = "ch_scan"]
                       /\ UNCHANGED video_urls
                  ELSE /\ pc' = [pc EXCEPT ![j] = "v_info"]
                       /\ \E k \in KindsFor(gcp[j]) :
                             video_urls' = [video_urls EXCEPT ![j] = <<k>>]
    /\ UNCHANGED <<regVars, fsVars, idx, vres, downloaded_videos, failed_videos, cb_calls,
                   enumerated, processed, calls, gcp, runner, response, sessVars, dispVars, exc>>

\* download_channel_videos: scan_channel, get_video_urls, the cap
ch_scan(j) ==
    /\ pc[j] = "ch_scan"
    /\ \E scan \in {<<"none">>} \cup {<<"list", c>> : c \in ChannelsFor(gcp[j])} :
          IF scan[1] = "none" \/ scan[2] = <<>>
          THEN /\ result' = [result EXCEPT ![j] =
                                <<Finish(j, Failure(IF scan[1] = "none"
                                                    THEN "Channel scan failed"
                                                    ELSE "No videos found in channel"),
                                         "channel")>>]
               /\ pc' = [pc EXCEPT ![j] = AfterPipeline(runner[j].kind)]
               /\ UNCHANGED <<video_urls, enumerated>>
          ELSE /\ enumerated' = [enumerated EXCEPT ![j] = scan[2]]
               /\ video_urls' = [video_urls EXCEPT ![j] =
                                    LimitVideos(scan[2], runner[j].max_videos)]
               /\ pc' = [pc EXCEPT ![j] = IF video_urls'[j] = <<>> THEN "ch_summary"
                                          ELSE "v_info"]
               /\ UNCHANGED result
    /\ UNCHANGED <<regVars, fsVars, idx, vres, downloaded_videos, failed_videos, cb_calls,
                   processed, calls, gcp, sessions, runner, response, sessVars, dispVars, exc>>

\* The call `op` is made for the video at hand.
Log(j, op) == calls' = [calls EXCEPT ![j] = Append(@, <<op, Cur(j)>>)]

\* get_video_info whose failure is passed over: the download goes ahead.
v_info_unchecked(j) ==
    /\ pc[j] = "v_info"
    /\ Ready(j)
    /\ pc' = [pc EXCEPT ![j] = "v_download"]
    /\ processed' = [processed EXCEPT ![j] = Append(@, Cur(j))]
    /\ Log(j, "info")
    /\ UNCHANGED <<regVars, fsVars, video_urls, idx, vres, downloaded_videos, failed_videos,
                   cb_calls, enumerated, pipeVars, runner, response, sessVars, dispVars, exc>>

\* download_single_video: get_video_info
v_info(j) ==
    /\ pc[j] = "v_info"
    /\ Ready(j)
    /\ IF Kind(j) = "info_error"
       THEN /\ vres' = [vres EXCEPT ![j] =
                           <<[success |-> FALSE, url |-> Cur(j), error |-> "info error"]>>]
            /\ pc' = [pc EXCEPT ![j] = "v_done"]
       ELSE /\ pc' = [pc EXCEPT ![j] = "v_download"]
            /\ UNCHANGED vres
    /\ processed' = [processed EXCEPT ![j] = Append(@, Cur(j))]
    /\ Log(j, "info")
    /\ UNCHANGED <<regVars, fsVars, video_urls, idx, downloaded_videos, failed_videos,
                   cb_calls, enumerated, pipeVars, runner, response, sessVars, dispVars, exc>>

\* download_single_video: downloader.download
v_download(j) ==
    /\ pc[j] = "v_download"
    /\ IF Kind(j) = "dl_error"
       THEN /\ vres' = [vres EXCEPT ![j] =
                           <<[success |-> FALSE, url |-> Cur(j), error |-> "download error"]>>]
            /\ pc' = [pc EXCEPT ![j] = "v_done"]
            /\ UNCHANGED <<local, created>>
       ELSE /\ local' = local \cup {File(j, Cur(j), "audio")}
            /\ created' = created \cup {File(j, Cur(j), "audio")}
            /\ pc' = [pc EXCEPT ![j] = "v_sidecar"]
            /\ UNCHANGED vres
    /\ Log(j, "download")
    /\ UNCHANGED <<regVars, remote, removed, video_urls, idx, downloaded_videos,
                   failed_videos, cb_calls, enumerated, processed, pipeVars, runner, response,
                   sessVars, dispVars, exc>>

\* An upload step entered whatever the caller asked and the store reports.
UploadNowAlways(j) == TRUE

\* if immediate_upload and self.gcp_uploader.is_available()
UploadNow(j) == runner[j].immediate_upload /\ gcp[j]

\* download_single_video: the metadata sidecar and the result dict
v_sidecar(j) ==
    /\ pc[j] = "v_sidecar"
    /\ local' = local \cup {File(j, Cur(j), "meta")}
    /\ created' = created \cup {File(j, Cur(j), "meta")}
    /\ vres' = [vres EXCEPT ![j] =
                   <<[success |-> TRUE, url |-> Cur(j), uploaded_to_gcp |-> FALSE,
                      local_files_cleaned |-> FALSE]>>]
    /\ pc' = [pc EXCEPT ![j] = IF UploadNow(j) THEN "v_up_audio" ELSE "v_done"]
    /\ Log(j, "sidecar")
    /\ UNCHANGED <<regVars, remote, removed, video_urls, idx, downloaded_videos,
                   failed_videos, cb_calls, enumerated, processed, pipeVars, runner, response,
                   sessVars, dispVars, exc>>

\* GCPUploader.upload_file, the store answering `answer` to the upload itself
UploadFile(j, f, answer) == [success |-> gcp[j] /\ f \in local /\ answer]

\* A test that takes every upload result for a success.
SucceededAlways(r) == TRUE

\* upload_result.get('success', False)
Succeeded(r) == Get(r, "success", FALSE)

\* download_single_video: upload of the audio file
v_up_audio(j) ==
    /\ pc[j] = "v_up_audio"
    /\ LET f == File(j, Cur(j), "audio")
           upload_result == UploadFile(j, f, Kind(j) # "audio_up_fail")
       IN  /\ remote' = IF upload_result.success THEN remote \cup {f} ELSE remote
           /\ pc' = [pc EXCEPT ![j] = IF Succeeded(upload_result) THEN "v_up_meta"
                                      ELSE "v_done"]
    /\ Log(j, "up_audio")
    /\ UNCHANGED <<regVars, local, removed, created, video_urls, idx, vres, downloaded_videos,
                   failed_videos, cb_calls, enumerated, processed, pipeVars, runner, response,
                   sessVars, dispVars, exc>>

\* download_single_video: upload of the sidecar, uploaded_to_gcp
v_up_meta(j) ==
    /\ pc[j] = "v_up_meta"
    /\ LET f == File(j, Cur(j), "meta")
           metadata_upload == UploadFile(j, f, Kind(j) # "meta_up_fail")
       IN  /\ remote' = IF metadata_upload.success THEN remote \cup {f} ELSE remote
           /\ IF Succeeded(metadata_upload)
              THEN /\ vres' = [vres EXCEPT ![j] =
                                  <<Update(@[1], [uploaded_to_gcp |-> TRUE])>>]
                   /\ pc' = [pc EXCEPT ![j] = "v_rm_audio"]
              ELSE /\ pc' = [pc EXCEPT ![j] = "v_done"]
                   /\ UNCHANGED vres
    /\ Log(j, "up_meta")
    /\ UNCHANGED <<regVars, local, removed, created, video_urls, idx, downloaded_videos,
                   failed_videos, cb_calls, enumerated, processed, pipeVars, runner, response,
                   sessVars, dispVars, exc>>

\* An unlink that leaves the file where it is.
UnlinkNothing(files, f) == files

\* Path.unlink(): the local files once f is deleted
Unlink(files, f) == files \ {f}

\* An unlink whose exception is not caught where it is raised: it reaches the
\* `except` of download_single_video and the video is returned as failed.
v_rm_audio_escalates(j) ==
    /\ pc[j] = "v_rm_audio"
    /\ LET f == File(j, Cur(j), "audio")
       IN  IF Kind(j) = "rm_audio_fail"
           THEN /\ pc' = [pc EXCEPT ![j] = "v_done"]
                /\ vres' = [vres EXCEPT ![j] =
                               <<[success |-> FALSE, url |-> Cur(j), error |-> "unlink error"]>>]
                /\ UNCHANGED <<local, removed>>
           ELSE /\ local' = Unlink(local, f)
                /\ removed' = IF f \in local THEN removed \cup {f} ELSE removed
                /\ pc' = [pc EXCEPT ![j] = "v_rm_meta"]
                /\ UNCHANGED vres
    /\ Log(j, "rm_audio")
    /\ UNCHANGED <<regVars, remote, created, video_urls, idx, downloaded_videos,
                   failed_videos, cb_calls, enumerated, processed, pipeVars, runner, response,
                   sessVars, dispVars, exc>>

\* download_single_video: audio_path.unlink()
v_rm_audio(j) ==
    /\ pc[j] = "v_rm_audio"
    /\ LET f == File(j, Cur(j), "audio")
       IN  IF Kind(j) = "rm_audio_fail"
           THEN /\ pc' = [pc EXCEPT ![j] = "v_done"]
                /\ UNCHANGED <<local, removed>>
           ELSE /\ local' = Unlink(local, f)
                /\ removed' = IF f \in local THEN removed \cup {f} ELSE removed
                /\ pc' = [pc EXCEPT ![j] = "v_rm_meta"]
    /\ Log(j, "rm_audio")
    /\ UNCHANGED <<regVars, remote, created, video_urls, idx, vres, downloaded_videos,
                   failed_videos, cb_calls, enumerated, processed, pipeVars, runner, response,
                   sessVars, dispVars, exc>>

\* download_single_video: metadata_file.unlink(), local_files_cleaned
v_rm_meta(j) ==
    /\ pc[j] = "v_rm_meta"
    /\ LET f == File(j, Cur(j), "meta")
       IN  IF Kind(j) = "rm_meta_fail"
           THEN /\ pc' = [pc EXCEPT ![j] = "v_done"]
                /\ UNCHANGED <<local, removed, vres>>
           ELSE /\ local' = Unlink(local, f)
                /\ removed' = IF f \in local THEN removed \cup {f} ELSE removed
                /\ vres' = [vres EXCEPT ![j] =
                               <<Update(@[1], [local_files_cleaned |-> TRUE])>>]
                /\ pc' = [pc EXCEPT ![j] = "v_done"]
    /\ Log(j, "rm_meta")
    /\ UNCHANGED <<regVars, remote, created, video_urls, idx, downloaded_videos,
                   failed_videos, cb_calls, enumerated, processed, pipeVars, runner, response,
                   sessVars, dispVars, exc>>

\* A loop that starts on the next video without waiting for the callback.
v_done_skips_callback(j) ==
    /\ pc[j] = "v_done"
    /\ LET r == vres[j][1]
       IN  IF runner[j].url.chan
           THEN /\ downloaded_videos' = [downloaded_videos EXCEPT ![j] =
                                            IF r.success THEN Append(@, r) ELSE @]
                /\ failed_videos' = [failed_videos EXCEPT ![j] =
                                        IF r.success THEN @ ELSE Append(@, r)]
                /\ IF TRUE
                   THEN /\ pc' = [pc EXCEPT ![j] = LoopNext(j)]
                        /\ idx' = [idx EXCEPT ![j] = @ + 1]
                   ELSE /\ pc' = [pc EXCEPT ![j] = "ch_cb"]
                        /\ UNCHANGED idx
                /\ UNCHANGED result
           ELSE IF runner[j].kind = "direct_video"
           THEN /\ result' = [result EXCEPT ![j] = <<r>>]
                /\ pc' = [pc EXCEPT ![j] = "done"]
                /\ UNCHANGED <<downloaded_videos, failed_videos, idx>>
           ELSE /\ result' = [result EXCEPT ![j] =
                                 <<Finish(j, Update(r, [downloaded_count |->
                                                           IF r.success THEN 1 ELSE 0,
                                                        failed_count |->
                                                           IF r.success THEN 0 ELSE 1,
                                                        total_videos |-> 1]), "video")>>]
                /\ pc' = [pc EXCEPT ![j] = AfterPipeline(runner[j].kind)]
                /\ UNCHANGED <<downloaded_videos, failed_videos, idx>>
    /\ UNCHANGED <<regVars, fsVars, video_urls, vres, cb_calls, enumerated, processed, calls, gcp,
                   sessions, runner, response, sessVars, dispVars, exc>>


\* `return result` of download_single_video, and what its caller does with it:
\* the loop of download_channel_videos appends it to a partition; process_url
\* wraps the result of a single video.
v_done(j) ==
    /\ pc[j] = "v_done"
    /\ LET r == vres[j][1]
       IN  IF runner[j].url.chan
           THEN /\ downloaded_videos' = [downloaded_videos EXCEPT ![j] =
                                            IF r.success THEN Append(@, r) ELSE @]
                /\ failed_videos' = [failed_videos EXCEPT ![j] =
                                        IF r.success THEN @ ELSE Append(@, r)]
                /\ IF runner[j].callback = "none"
                   THEN /\ pc' = [pc EXCEPT ![j] = LoopNext(j)]
                        /\ idx' = [idx EXCEPT ![j] = @ + 1]
                   ELSE /\ pc' = [pc EXCEPT ![j] = "ch_cb"]
                        /\ UNCHANGED idx
                /\ UNCHANGED result
           ELSE IF runner[j].kind = "direct_video"
           THEN /\ result' = [result EXCEPT ![j] = <<r>>]
                /\ pc' = [pc EXCEPT ![j] = "done"]
                /\ UNCHANGED <<downloaded_videos, failed_videos, idx>>
           ELSE /\ result' = [result EXCEPT ![j] =
                                 <<Finish(j, Update(r, [downloaded_count |->
                                                           IF r.success THEN 1 ELSE 0,
                                                        failed_count |->
                                                           IF r.success THEN 0 ELSE 1,
                                                        total_videos |-> 1]), "video")>>]
                /\ pc' = [pc EXCEPT ![j] = AfterPipeline(runner[j].kind)]
                /\ UNCHANGED <<downloaded_videos, failed_videos, idx>>
    /\ UNCHANGED <<regVars, fsVars, video_urls, vres, cb_calls, enumerated, processed, calls, gcp,
                   sessions, runner, response, sessVars, dispVars, exc>>

\* The progress_callback call of the loop: after the video's result is recorded,
\* or, when that call raised, in the `except` of the loop body, which first
\* appends a failure entry for the video. A raise there leaves the loop for the
\* outer `except` of download_channel_videos.
ch_cb(j) ==
    /\ pc[j] \in {"ch_cb", "ch_except"}
    /\ Ready(j)
    /\ LET in_except == pc[j] = "ch_except"
       IN  /\ failed_videos' = [failed_videos EXCEPT ![j] =
                                   IF in_except
                                   THEN Append(@, [success |-> FALSE, url |-> Cur(j),
                                                   error |-> "callback error"])
                                   ELSE @]
           /\ ProgressCallback(j, IF in_except THEN FALSE ELSE vres[j][1].success)
           /\ \E raises \in MayRaise(runner[j].callback) :
                 IF raises
                 THEN /\ UNCHANGED idx
                      /\ IF in_except
                         THEN /\ result' = [result EXCEPT ![j] =
                                               <<Finish(j, Failure("callback error"),
                                                        "channel")>>]
                              /\ pc' = [pc EXCEPT ![j] = AfterPipeline(runner[j].kind)]
                         ELSE /\ pc' = [pc EXCEPT ![j] = "ch_except"]
                              /\ UNCHANGED result
                 ELSE /\ idx' = [idx EXCEPT ![j] = @ + 1]
                      /\ pc' = [pc EXCEPT ![j] = LoopNext(j)]
                      /\ UNCHANGED result
    /\ Log(j, "callback")
    /\ UNCHANGED <<active_jobs, job, stored, fsVars, video_urls, vres, downloaded_videos,
                   enumerated, processed, gcp, sessions, runner, response, sessVars, dispVars, exc>>

\* the dict download_channel_videos returns after the loop
ChannelResult(j) ==
    [success |-> TRUE,
     total_videos |-> Len(video_urls[j]),
     downloaded_count |-> Len(downloaded_videos[j]),
     failed_count |-> Len(failed_videos[j]),
     downloaded_videos |-> downloaded_videos[j],
     failed_videos |-> failed_videos[j]]

\* download_channel_videos after the loop: the summary and the returned dict
ch_summary(j) ==
    /\ pc[j] = "ch_summary"
    /\ Ready(j)
    /\ result' = [result EXCEPT ![j] = <<Finish(j, ChannelResult(j), "channel")>>]
    /\ pc' = [pc EXCEPT ![j] = AfterPipeline(runner[j].kind)]
    /\ UNCHANGED <<regVars, fsVars, loopVars, gcp, sessions, runner, response, sessVars, dispVars,
                   exc>>

\* max_videos arguments of a library caller
CapArgs == 0..MaxCap \cup {DefaultMaxVideos}

\* A library caller: pipeline = SimpleDownloadPipeline(...), then
\* pipeline.process_url(url, max_videos=cap, progress_callback=callback)
DirectCall(j) ==
    /\ runner[j].kind = "none"
    /\ \E chan \in BOOLEAN, callback \in {"none", "generic"}, cap \in CapArgs,
          avail \in BOOLEAN :
          /\ runner' = [runner EXCEPT ![j] =
                           [kind |-> "direct", url |-> [chan |-> chan, watch |-> ~chan],
                            callback |-> callback, max_videos |-> cap,
                            immediate_upload |-> TRUE, session_name |-> <<>>]]
          /\ gcp' = [gcp EXCEPT ![j] = avail]
    /\ pc' = [pc EXCEPT ![j] = "p_start"]
    /\ UNCHANGED <<regVars, fsVars, loopVars, sessions, result, exc, response, sessVars, dispVars>>

\* A library caller of the per-video processor: pipeline.create_session(), then
\* pipeline.download_single_video(url, immediate_upload=...)
DirectVideoCall(j) ==
    /\ runner[j].kind = "none"
    /\ \E immediate_upload \in BOOLEAN, avail \in BOOLEAN :
          /\ runner' = [runner EXCEPT ![j] =
                           [kind |-> "direct_video", url |-> [chan |-> FALSE, watch |-> TRUE],
                            callback |-> "none", max_videos |-> DefaultMaxVideos,
                            immediate_upload |-> immediate_upload,
                            session_name |-> <<>>]]
          /\ gcp' = [gcp EXCEPT ![j] = avail]
          /\ \E k \in KindsFor(immediate_upload /\ avail) :
                video_urls' = [video_urls EXCEPT ![j] = <<k>>]
    /\ sessions' = [sessions EXCEPT ![j] = Append(@, "download_session")]
    /\ pc' = [pc EXCEPT ![j] = "v_info"]
    /\ UNCHANGED <<regVars, fsVars, idx, vres, downloaded_videos, failed_videos, cb_calls,
                   enumerated, processed, calls, result, exc, response, sessVars, dispVars>>

\* ------------------------------------------------------------ sessions

\* datetime.now().strftime("%Y%m%d_%H%M%S"): the clock cut to whole seconds
Timestamp(t) == t \div TicksPerSecond

\* Time passes.
Tick ==
    /\ clock < MaxClock
    /\ clock' = clock + 1
    /\ UNCHANGED <<regVars, fsVars, loopVars, pipeVars, runner, pc, exc, response,
                   session_dir, dispVars>>

\* The session name of a create_session call: process_url passes none and
\* create_session derives download_session_<timestamp>; the URL worker of
\* app.py passes web_session_<timestamp> when the submitter gave no name.
SessionName(caller, t) ==
    IF caller = "process_url" THEN <<"download_session", Timestamp(t)>>
    ELSE <<"web_session", Timestamp(t)>>

\* create_session in the pipeline of worker w: current_session and session_dir
\* are set, the directory is made with exist_ok=True
create_session(w) ==
    /\ \E caller \in {"process_url", "process_youtube_url_background"} :
          session_dir' = [session_dir EXCEPT ![w] = <<SessionName(caller, clock)>>]
    /\ UNCHANGED <<regVars, fsVars, loopVars, pipeVars, runner, pc, exc, response, clock, dispVars>>

SessionNext == Tick \/ \E w \in Workers : create_session(w)

\* ------------------------------------------------------------ URL dispatch

\* URLs as sequences of characters. The texts tried are made of at most
\* MaxPieces of these pieces; a pattern may span two pieces ("/c" then "/").
Pieces ==
    { <<"/", "c", "h", "a", "n", "n", "e", "l", "/">>,
      <<"/", "C", "h", "a", "n", "n", "e", "l", "/">>,
      <<"/", "c">>,
      <<"/", "C", "/">>,
      <<"/">>,
      <<"c", "/">>,
      <<"/", "u", "s", "e", "r", "/">>,
      <<"/", "U", "S", "E", "R", "/">>,
      <<"/", "@">>,
      <<"/", "p", "l", "a", "y", "l", "i", "s", "t", "?">>,
      <<"/", "P", "l", "a", "y", "L", "i", "s", "t", "?">>,
      <<"y", "o", "u", "t", "u", ".", "b", "e", "/">>,
      <<"y", "o", "u", "t", "u", "b", "e", ".", "c", "o", "m", "/", "w", "a", "t", "c", "h">>,
      <<"x">> }

RECURSIVE TextsOf(_)
TextsOf(n) ==
    IF n = 0 THEN {<<>>}
    ELSE LET shorter == TextsOf(n - 1)
         IN  shorter \cup {t \o q : t \in shorter, q \in Pieces}

Texts == TextsOf(MaxPieces) \ {<<>>}

\* str.lower() on the letters that occur in Pieces
ToLower ==
    [c \in {"C", "U", "S", "E", "R", "P", "L"} |->
        CASE c = "C" -> "c" [] c = "U" -> "u" [] c = "S" -> "s" [] c = "E" -> "e"
          [] c = "R" -> "r" [] c = "P" -> "p" [] c = "L" -> "l"]

Lower(text) ==
    [k \in 1..Len(text) |-> IF text[k] \in DOMAIN ToLower THEN ToLower[text[k]] ELSE text[k]]

\* `pattern in text`
Contains(text, pattern) ==
    \E k \in 1..(Len(text) - Len(pattern) + 1) :
        SubSeq(text, k, k + Len(pattern) - 1) = pattern

\* The pattern list with the handle pattern left out.
ChannelPatternsWithoutHandle ==
    { <<"/", "c", "h", "a", "n", "n", "e", "l", "/">>,
      <<"/", "c", "/">>,
      <<"/", "u", "s", "e", "r", "/">>,
      <<"/", "p", "l", "a", "y", "l", "i", "s", "t", "?">> }

\* ['/channel/', '/c/', '/user/', '/@', '/playlist?']
ChannelPatterns ==
    { <<"/", "c", "h", "a", "n", "n", "e", "l", "/">>,
      <<"/", "c", "/">>,
      <<"/", "u", "s", "e", "r", "/">>,
      <<"/", "@">>,
      <<"/", "p", "l", "a", "y", "l", "i", "s", "t", "?">> }

\* 'youtube.com/watch', 'youtu.be/'
VideoPatterns ==
    { <<"y", "o", "u", "t", "u", "b", "e", ".", "c", "o", "m", "/", "w", "a", "t", "c", "h">>,
      <<"y", "o", "u", "t", "u", ".", "b", "e", "/">> }

\* any(pattern in url.lower() for pattern in [...]) of process_channel_background
RunnerIsChannel(url) == \E pattern \in ChannelPatterns : Contains(Lower(url), pattern)

\* any(pattern in url.lower() for pattern in [...]) of process_url
PipelineIsChannel(url) == \E pattern \in ChannelPatterns : Contains(Lower(url), pattern)

\* process_channel_background is started with a URL.
d_start ==
    /\ url_text = <<>>
    /\ \E url \in Texts : url_text' = url
    /\ UNCHANGED <<regVars, fsVars, loopVars, pipeVars, runner, pc, exc, response, sessVars,
                   is_channel, dispatched>>

\* process_channel_background: is_channel
d_is_channel ==
    /\ url_text # <<>>
    /\ is_channel = <<>>
    /\ is_channel' = <<RunnerIsChannel(url_text)>>
    /\ UNCHANGED <<regVars, fsVars, loopVars, pipeVars, runner, pc, exc, response, sessVars,
                   url_text, dispatched>>

\* pipeline.process_url(url=url, ...): create_session, which may raise, then
\* the channel test and the branch taken
d_process_url ==
    /\ is_channel # <<>>
    /\ dispatched = "none"
    /\ \E raises \in BOOLEAN :
          dispatched' = IF raises THEN "unknown"
                        ELSE IF PipelineIsChannel(url_text) THEN "channel"
                        ELSE "video"
    /\ UNCHANGED <<regVars, fsVars, loopVars, pipeVars, runner, pc, exc, response, sessVars,
                   url_text, is_channel>>

DispatchNext == d_start \/ d_is_channel \/ d_process_url

\* ------------------------------------------------------------ specifications

PipelineStep(j) ==
    \/ p_start(j)
    \/ ch_scan(j)
    \/ v_info(j)
    \/ v_download(j)
    \/ v_sidecar(j)
    \/ v_up_audio(j)
    \/ v_up_meta(j)
    \/ v_rm_audio(j)
    \/ v_rm_meta(j)
    \/ v_done(j)
    \/ ch_cb(j)
    \/ ch_summary(j)

WorkerStep(j) ==
    \/ u_lookup(j)
    \/ u_ctor(j)
    \/ u_session(j)
    \/ u_finalizing(j)
    \/ u_completed(j)
    \/ u_complete(j)
    \/ u_except(j)
    \/ c_start(j)
    \/ c_ctor(j)
    \/ c_after(j)
    \/ c_finalizing(j)
    \/ c_final(j)
    \/ c_except(j)
    \/ SetAttr(j)
    \/ ReleaseLock(j)
    \/ PipelineStep(j)

Next ==
    \E j \in JobIds :
        \/ process_url(j)
        \/ process_channel(j)
        \/ process_channel_store(j)
        \/ cleanup_job(j)
        \/ get_result(j)
        \/ WorkerStep(j)

Spec == Init /\ [][Next]_vars

PipelineNext == \E j \in JobIds : DirectCall(j) \/ DirectVideoCall(j) \/ PipelineStep(j)

PipelineSpec == Init /\ [][PipelineNext]_vars

SessionSpec == Init /\ [][SessionNext]_vars

DispatchSpec == Init /\ [][DispatchNext]_vars

\* ------------------------------------------------------------------ claims

Terminal(status) == status \in {"completed", "failed"}

\* The worker function of job j has returned.
WorkerDone(j) == pc[j] = "done" /\ Ready(j)

WebJob(j) == runner[j].kind \in {"process", "channel"}

\* A reader inside `with job_lock` can look at the record of j.
Observable(j) == job_lock = "free" /\ j \in active_jobs

\* C1: a local file of a video is gone from local storage only when both the
\* audio object and the metadata object of that video are in the bucket.
C1_CleanupOnlyAfterBothUploads ==
    \A f \in (created \ local) \cup removed :
        /\ File(f[1], f[2], "audio") \in remote
        /\ File(f[1], f[2], "meta") \in remote

\* C1 witness: the audio of a video has been unlinked, its sidecar not yet.
C1_Witness ==
    \E f \in removed : f[3] = "audio" /\ File(f[1], f[2], "meta") \in local

\* C2: once the worker of a submitted job has returned, the record (every update
\* of which found it in the registry) is completed or failed.
C2_EveryJobTerminates ==
    \A j \in JobIds :
        (WebJob(j) /\ WorkerDone(j) /\ j \in active_jobs /\ ~missed[j])
            => Terminal(job[j].status)

EnumerationFailed(r) ==
    Get(r, "error", "None") \in {"Channel scan failed", "No videos found in channel"}

\* C3: when the enumerator reported no list or an empty list, the record (every
\* update of which found it in the registry) ends failed with an error, and the
\* result has downloaded_count = 0 and failed_count = 0.
C3_EnumerationFailureFailsJob ==
    \A j \in JobIds :
        (/\ WebJob(j) /\ WorkerDone(j) /\ j \in active_jobs /\ ~missed[j]
         /\ result[j] # <<>> /\ EnumerationFailed(result[j][1]))
            => /\ job[j].status = "failed"
               /\ job[j].error # "None"
               /\ result[j][1].downloaded_count = 0
               /\ result[j][1].failed_count = 0

\* C4: while the record of a job is not terminal, no step lowers its progress.
C4_ProgressNeverDecreases ==
    [][\A j \in JobIds :
          (/\ j \in active_jobs /\ j \in active_jobs'
           /\ ~Terminal(job[j].status) /\ ~Terminal(job'[j].status))
              => job'[j].progress >= job[j].progress]_vars

\* C5: a record a reader can see never has both results and error, and has
\* exactly one of them once its status is completed or failed.
C5_ExactlyOneOfResultsError ==
    \A j \in JobIds :
        Observable(j) =>
            /\ ~(job[j].results # <<>> /\ job[j].error # "None")
            /\ Terminal(job[j].status) =>
                  (job[j].results # <<>>) # (job[j].error # "None")

\* The JobStatus call in progress on the record of j has assigned status and
\* not yet progress or message.
Torn(j) == writes[j] # <<>> /\ Head(writes[j])[1] \in {"progress", "message"}

\* C6: a reader holding job_lock never sees a record whose status was changed
\* by an update while progress or message are still those of the update before.
C6_UpdatesAtomicUnderLock == \A j \in JobIds : Observable(j) => ~Torn(j)

ChannelRunReturned(j) ==
    /\ result[j] # <<>>
    /\ Get(result[j][1], "type", "None") = "channel"
    /\ Get(result[j][1], "success", FALSE)

\* C7: a channel run that returned success=true has
\* downloaded_count + failed_count = number of URLs after the cap, and the two
\* lists have downloaded_count and failed_count entries.
C7_CountsAddUp ==
    \A j \in JobIds :
        ChannelRunReturned(j) =>
            LET r == result[j][1]
            IN  /\ r.downloaded_count + r.failed_count = Len(video_urls[j])
                /\ r.total_videos = Len(video_urls[j])
                /\ Len(r.downloaded_videos) = r.downloaded_count
                /\ Len(r.failed_videos) = r.failed_count

\* C8: the k-th invocation of the progress callback carries index k, and a
\* channel run that returned success=true made one invocation per video.
C8_CallbackOncePerVideo ==
    \A j \in JobIds :
        runner[j].callback # "none" =>
            /\ \A k \in 1..Len(cb_calls[j]) : cb_calls[j][k][1] = k
            /\ ChannelRunReturned(j) => Len(cb_calls[j]) = Len(video_urls[j])

\* C9: no exception leaves a worker function, and an exception raised in a
\* worker leaves a failed record whose message and error carry its description.
C9_NoExceptionEscapes ==
    \A j \in JobIds :
        /\ pc[j] # "crashed"
        /\ (WebJob(j) /\ WorkerDone(j) /\ exc[j] # "None" /\ j \in active_jobs)
              => /\ job[j].status = "failed"
                 /\ job[j].error = exc[j]
                 /\ job[j].message = "Erro: " \o exc[j]

SuccessCount(urls) == Cardinality({k \in 1..Len(urls) : urls[k] \notin {"info_error", "dl_error"}})

\* C10: a channel job whose enumeration gave n >= 1 videos returns
\* success=true, ends completed, counts the videos that succeeded and those that
\* failed, and lists every failed one with a non-empty error.
C10_PartialFailureCompletes ==
    \A j \in JobIds :
        (/\ WebJob(j) /\ WorkerDone(j) /\ j \in active_jobs
         /\ runner[j].url.chan /\ Len(video_urls[j]) >= 1)
            => LET r == result[j][1]
               IN  /\ Get(r, "success", FALSE)
                   /\ job[j].status = "completed"
                   /\ r.downloaded_count = SuccessCount(video_urls[j])
                   /\ r.failed_count = Len(video_urls[j]) - SuccessCount(video_urls[j])
                   /\ \A k \in 1..Len(r.failed_videos) :
                         Get(r.failed_videos[k], "error", "") # ""

\* The video at hand has been processed and download_single_video returns.
VideoReturned(j) == pc[j] = "v_done" /\ vres[j] # <<>> /\ vres[j][1].success

\* Neither unlink of the video at hand raises.
DeletionSucceeds(j) == Kind(j) \notin {"rm_audio_fail", "rm_meta_fail"}

\* C11 as stated: a successfully processed video whose result has
\* uploaded_to_gcp=true also has local_files_cleaned=true, and neither its audio
\* file nor its sidecar is in local storage.
C11_UploadedImpliesCleaned ==
    \A j \in JobIds :
        (VideoReturned(j) /\ Get(vres[j][1], "uploaded_to_gcp", FALSE))
            => /\ Get(vres[j][1], "local_files_cleaned", FALSE)
               /\ File(j, Cur(j), "audio") \notin local
               /\ File(j, Cur(j), "meta") \notin local

\* C11 amended: when both uploads succeeded and neither deletion raises, the
\* result has local_files_cleaned=true and both local files are gone; and
\* local_files_cleaned=true is reported only with uploaded_to_gcp=true and both
\* local files gone.
C11_CleanedWhenDeletionSucceeds ==
    \A j \in JobIds :
        VideoReturned(j) =>
            LET r == vres[j][1]
                gone == /\ File(j, Cur(j), "audio") \notin local
                        /\ File(j, Cur(j), "meta") \notin local
            IN  /\ (Get(r, "uploaded_to_gcp", FALSE) /\ DeletionSucceeds(j))
                      => (Get(r, "local_files_cleaned", FALSE) /\ gone)
                /\ Get(r, "local_files_cleaned", FALSE)
                      => (Get(r, "uploaded_to_gcp", FALSE) /\ gone)

\* C11 witness: a video returns uploaded and cleaned.
C11_Witness ==
    \E j \in JobIds :
        /\ VideoReturned(j)
        /\ Get(vres[j][1], "uploaded_to_gcp", FALSE)
        /\ Get(vres[j][1], "local_files_cleaned", FALSE)

\* Position of a status in Waiting < Downloading < Processing < Finalizing < Completed.
Rank(status) ==
    CASE status = "waiting" -> 0
      [] status = "downloading" -> 1
      [] status = "processing" -> 2
      [] status = "finalizing" -> 3
      [] status = "completed" -> 4
      [] OTHER -> -1

\* C12: every step that changes the status of a record moves it to a strictly
\* later state of the order, or from a non-terminal state to failed.
C12_StatusMovesForward ==
    [][\A j \in JobIds :
          job'[j].status # job[j].status =>
              \/ /\ Rank(job[j].status) >= 0
                 /\ Rank(job'[j].status) > Rank(job[j].status)
              \/ /\ job'[j].status = "failed"
                 /\ ~Terminal(job[j].status)]_vars

\* C12 witness: a record that went through processing and finalizing is completed.
C12_Witness ==
    \E j \in JobIds :
        /\ job[j].status = "completed" /\ j \in active_jobs
        /\ cb_calls[j] # <<>> /\ gcp[j] /\ runner[j].kind = "channel"

\* C13: once the status of a record is completed or failed, no step changes it.
C13_TerminalIsFinal ==
    [][\A j \in JobIds :
          Terminal(job[j].status) => job'[j].status = job[j].status]_vars

\* C13 witness: the worker runs on after the record became completed: the
\* results are assigned to a record that already is completed.
C13_Witness ==
    \E j \in JobIds :
        /\ job[j].status = "completed" /\ job[j].results # <<>>
        /\ WorkerDone(j) /\ runner[j].kind = "process"

\* C14: a record a reader can see has progress 100 when its status is
\* completed and progress 0 when its status is failed.
C14_TerminalProgress ==
    \A j \in JobIds :
        Observable(j) =>
            /\ job[j].status = "completed" => job[j].progress = 100
            /\ job[j].status = "failed" => job[j].progress = 0

\* download_channel_videos got a non-empty list from the enumerator.
Enumerated(j) == runner[j].url.chan /\ enumerated[j] # <<>>

\* min(n, max_videos) for the run of j
CapCount(j) == Min(Len(enumerated[j]), runner[j].max_videos)

\* C15: the list a channel run works on is the first min(n, max_videos) URLs of
\* the enumeration, the positions handed to download_single_video are 1, 2, ..
\* in this order and never beyond the cap, and a run that returned success=true
\* has processed all min(n, max_videos) of them.
C15_CapTakesFirstUrls ==
    \A j \in JobIds :
        Enumerated(j) =>
            /\ video_urls[j] = SubSeq(enumerated[j], 1, CapCount(j))
            /\ Len(processed[j]) <= CapCount(j)
            /\ \A k \in 1..Len(processed[j]) : processed[j][k] = k
            /\ ChannelRunReturned(j) => Len(processed[j]) = CapCount(j)

\* C15 witness: a run over a list longer than the cap has returned.
C15_Witness ==
    \E j \in JobIds :
        /\ Enumerated(j) /\ ChannelRunReturned(j)
        /\ Len(enumerated[j]) > runner[j].max_videos
        /\ processed[j] # <<>>

\* The entries of a partition name positions of the processed list in
\* strictly increasing order.
IsSubsequenceOfProcessed(entries, n) ==
    /\ \A k \in 1..Len(entries) : entries[k].url \in 1..n
    /\ \A k \in 1..(Len(entries) - 1) : entries[k].url < entries[k + 1].url

\* C16: in the result of a channel run, downloaded_videos and failed_videos
\* are each a subsequence of the processed (capped) URL sequence.
C16_PartitionsKeepOrder ==
    \A j \in JobIds :
        ChannelRunReturned(j) =>
            LET r == result[j][1]
            IN  /\ IsSubsequenceOfProcessed(r.downloaded_videos, Len(video_urls[j]))
                /\ IsSubsequenceOfProcessed(r.failed_videos, Len(video_urls[j]))

\* C17: a get_result request for a record of the registry answers with the
\* result the pipeline produced for the job when the record is completed, and
\* with the not-completed error and no payload otherwise.
C17_ResultOnlyWhenCompleted ==
    [][\A j \in JobIds :
          (get_result(j) /\ j \in active_jobs) =>
              IF job[j].status = "completed"
              THEN /\ response'.code = 200
                   /\ result[j] # <<>>
                   /\ response'.body.results = result[j][1]
              ELSE /\ response'.code = 400
                   /\ "results" \notin DOMAIN response'.body]_vars

\* C18: a record leaves the registry only when its status is completed or failed.
C18_EvictOnlyTerminal ==
    [][\A j \in JobIds :
          (j \in active_jobs /\ j \notin active_jobs') => Terminal(job[j].status)]_vars

\* C19: a cleanup request answers 200 with the same body whether or not the id
\* is in the registry, removes the id when it is there, and leaves the registry
\* as it is when it is not: a second request changes nothing more.
C19_CleanupIdempotent ==
    [][\A j \in JobIds :
          cleanup_job(j) =>
              /\ response'.code = 200
              /\ response'.body = [message |-> "Job removido"]
              /\ j \notin active_jobs'
              /\ j \notin active_jobs => active_jobs' = active_jobs]_vars

\* C19 witness: a cleanup request was answered for an id no job was ever given.
C19_Witness ==
    \E j \in JobIds :
        /\ runner[j].kind = "none" /\ j \notin active_jobs
        /\ response.handler = "cleanup" /\ response.code = 200

\* The body carries a URL that passes the checks of the handler.
Accepted(handler, req) ==
    /\ req.kind = "url"
    /\ IF handler = "process" THEN req.url.watch ELSE req.url.chan \/ req.url.watch

\* the registry, the records and the threads
Submitted == <<active_jobs, job, stored, runner, pc>>

\* C20: a POST to /process or /process_channel whose URL is missing or does not
\* pass the URL checks is answered with an error, and it leaves the registry,
\* the records and the threads as they were.
C20_RejectedCreatesNothing ==
    [][\A j \in JobIds, req \in Requests :
          /\ (ProcessUrlRequest(j, req) /\ ~Accepted("process", req))
                 => (response'.code \in {400, 500} /\ Submitted' = Submitted)
          /\ (ProcessChannelRequest(j, req) /\ ~Accepted("process_channel", req))
                 => (response'.code \in {400, 500} /\ Submitted' = Submitted)]_vars

\* C20 witness: a request was rejected while the registry held a record.
C20_Witness ==
    /\ response.handler \in {"process", "process_channel"}
    /\ response.code = 400
    /\ active_jobs # {}

\* C21: a job never has more than one session created for it, and when its
\* first download begins exactly one has been created.
C21_OneSessionPerJob ==
    \A j \in JobIds :
        /\ Len(sessions[j]) <= 1
        /\ processed[j] # <<>> => Len(sessions[j]) = 1

\* C22: two workers never have the same session directory.
C22_SessionDirsDistinct ==
    \A v, w \in Workers :
        (v # w /\ session_dir[v] # <<>> /\ session_dir[w] # <<>>)
            => session_dir[v] # session_dir[w]

\* The calls of the given kinds logged for the video at position v.
CallsFor(j, v, ops) == {k \in 1..Len(calls[j]) : calls[j][k][2] = v /\ calls[j][k][1] \in ops}

UploadOps == {"up_audio", "up_meta"}
UnlinkOps == {"rm_audio", "rm_meta"}

\* download_single_video returns for a video it was not to upload: no upload
\* call was made, and a video that was downloaded is reported success=true,
\* uploaded_to_gcp=false, local_files_cleaned=false with both files still local.
NoUploadLeavesFiles(j) ==
    (pc[j] = "v_done" /\ ~(runner[j].immediate_upload /\ gcp[j])) =>
        /\ CallsFor(j, Cur(j), UploadOps \cup UnlinkOps) = {}
        /\ Kind(j) = "ok" =>
              /\ vres[j][1].success
              /\ ~vres[j][1].uploaded_to_gcp
              /\ ~vres[j][1].local_files_cleaned
              /\ File(j, Cur(j), "audio") \in local
              /\ File(j, Cur(j), "meta") \in local

\* C23: without the store, or without immediate upload, a video is returned
\* with no upload call made, success=true, uploaded_to_gcp=false,
\* local_files_cleaned=false and both files on local storage; and the record of
\* a single-video job in this situation is completed when its worker returns.
C23_NoStoreKeepsFilesAndCompletes ==
    \A j \in JobIds :
        /\ NoUploadLeavesFiles(j)
        /\ (/\ WebJob(j) /\ WorkerDone(j) /\ j \in active_jobs
            /\ ~gcp[j] /\ ~runner[j].url.chan /\ video_urls[j] = <<"ok">>)
               => job[j].status = "completed"

UploadFailKinds == {"audio_up_fail", "meta_up_fail"}

\* C24: a video one of whose uploads failed is returned with success=true and
\* uploaded_to_gcp=false, with no unlink call made and both files on local
\* storage; a channel run returns having processed every video of its list; and
\* the record of a job with such a video is not failed.
C24_UploadFailureStaysLocal ==
    \A j \in JobIds :
        /\ (pc[j] = "v_done" /\ Kind(j) \in UploadFailKinds) =>
              /\ vres[j][1].success
              /\ ~vres[j][1].uploaded_to_gcp
              /\ ~vres[j][1].local_files_cleaned
              /\ CallsFor(j, Cur(j), UnlinkOps) = {}
              /\ File(j, Cur(j), "audio") \in local
              /\ File(j, Cur(j), "meta") \in local
        /\ ChannelRunReturned(j) => Len(processed[j]) = Len(video_urls[j])
        /\ (\E k \in 1..Len(video_urls[j]) : video_urls[j][k] \in UploadFailKinds)
              => job[j].status # "failed"

\* C24 witness: a channel job whose first video failed to upload has processed
\* its second video as well and is completed.
C24_Witness ==
    \E j \in JobIds :
        /\ WebJob(j) /\ ChannelRunReturned(j)
        /\ Len(video_urls[j]) = 2 /\ video_urls[j][1] \in UploadFailKinds
        /\ Len(processed[j]) = 2
        /\ job[j].status = "completed"

\* C25: a video whose get_video_info failed is returned with success=false and
\* the error message, and no download, sidecar write, upload or unlink is ever
\* made for it: none of its files was ever written.
C25_InfoFailureStopsVideo ==
    \A j \in JobIds :
        /\ (pc[j] = "v_done" /\ Kind(j) = "info_error") =>
              /\ ~vres[j][1].success
              /\ vres[j][1].error = "info error"
        /\ \A v \in 1..Len(video_urls[j]) :
              video_urls[j][v] = "info_error" =>
                  /\ CallsFor(j, v, {"download", "sidecar"} \cup UploadOps \cup UnlinkOps) = {}
                  /\ File(j, v, "audio") \notin created
                  /\ File(j, v, "meta") \notin created

\* C25 witness: download_single_video returns for a video whose metadata did
\* not resolve.
C25_Witness ==
    \E j \in JobIds :
        /\ pc[j] = "v_done" /\ Kind(j) = "info_error"
        /\ CallsFor(j, Cur(j), {"info"}) # {}

UnlinkFailKinds == {"rm_audio_fail", "rm_meta_fail"}

\* C26: a video uploaded twice with success whose local deletion failed is
\* returned with success=true, uploaded_to_gcp=true and
\* local_files_cleaned=false; a channel run with such a video returns
\* success=true with the video among the downloaded ones, and the record of the
\* job is not failed.
C26_DeletionFailureOnlyReported ==
    \A j \in JobIds :
        /\ (pc[j] = "v_done" /\ Kind(j) \in UnlinkFailKinds) =>
              /\ vres[j][1].success
              /\ vres[j][1].uploaded_to_gcp
              /\ ~vres[j][1].local_files_cleaned
        /\ \A v \in 1..Len(video_urls[j]) :
              video_urls[j][v] \in UnlinkFailKinds =>
                  /\ job[j].status # "failed"
                  /\ (Enumerated(j) /\ result[j] # <<>>) =>
                        /\ result[j][1].success
                        /\ \E k \in 1..Len(result[j][1].downloaded_videos) :
                              result[j][1].downloaded_videos[k].url = v

\* C26 witness: a channel job with a video whose sidecar could not be deleted
\* is completed.
C26_Witness ==
    \E j \in JobIds :
        /\ WebJob(j) /\ ChannelRunReturned(j)
        /\ \E v \in 1..Len(video_urls[j]) : video_urls[j][v] = "rm_meta_fail"
        /\ job[j].status = "completed"

\* The worker thread of j has been started and the handler has not stored the
\* record of j yet.
RunsUnregistered(j) == WebJob(j) /\ stored[j] = "thread_started"

\* C27: no worker thread runs before the record of its job is in the
\* registry, so no worker update finds the record not inserted yet.
C27_StoredBeforeThreadStarts ==
    \A j \in JobIds : ~RunsUnregistered(j)

\* A run of download_channel_videos, whatever its caller.
ChannelRun(j) == runner[j].kind # "none" /\ runner[j].url.chan

\* C28: the videos of a channel run are processed one after the other: the
\* calls made for a video never precede a call made for an earlier one, and
\* the first call for video v+1 comes after the progress callback of video v.
C28_VideosStrictlySequential ==
    \A j \in JobIds :
        ChannelRun(j) =>
            \A k \in 1..Len(calls[j]) :
                /\ \A l \in k..Len(calls[j]) : calls[j][k][2] <= calls[j][l][2]
                /\ (runner[j].callback # "none" /\ calls[j][k][2] > 1) =>
                      \E m \in 1..(k - 1) : calls[j][m] = <<"callback", calls[j][k][2] - 1>>

C28_Witness ==
    \E j \in JobIds :
        /\ WebJob(j) /\ ChannelRun(j) /\ ChannelRunReturned(j)
        /\ CallsFor(j, 1, UploadOps \cup UnlinkOps) # {}
        /\ CallsFor(j, 2, {"info", "callback"}) # {}

InProgress == {"downloading", "processing"}
Closing == {"finalizing", "completed"}

\* C29: a record whose status is downloading or processing has a progress of
\* at most 90, and a step that writes a progress above 90 leaves the record
\* with the status finalizing or completed.
C29_ProgressCappedWhileRunning ==
    /\ [](\A j \in JobIds : job[j].status \in InProgress => job[j].progress <= ProgressCap)
    /\ [][\A j \in JobIds :
             (job'[j].progress > ProgressCap /\ job'[j].progress # job[j].progress) =>
                 job'[j].status \in Closing]_vars

C29_Witness ==
    \E j \in JobIds :
        /\ WebJob(j) /\ j \in active_jobs
        /\ job[j].status = "processing" /\ job[j].progress = ProgressCap

\* C30: in download_single_video an upload of the sidecar is called only after
\* the upload of the same video's audio was called and put the audio in the
\* store; a video whose audio upload fails gets no sidecar upload call.
C30_MetadataUploadAfterAudioSuccess ==
    \A j \in JobIds :
        \A v \in 1..Len(video_urls[j]) :
            /\ \A k \in CallsFor(j, v, {"up_meta"}) :
                  /\ \E m \in CallsFor(j, v, {"up_audio"}) : m < k
                  /\ File(j, v, "audio") \in remote
            /\ video_urls[j][v] = "audio_up_fail" => CallsFor(j, v, {"up_meta"}) = {}

C30_Witness ==
    \E j \in JobIds :
        /\ pc[j] = "done"
        /\ \E v \in 1..Len(video_urls[j]) :
              /\ video_urls[j][v] = "audio_up_fail"
              /\ CallsFor(j, v, {"up_audio"}) # {}
        /\ \E v \in 1..Len(video_urls[j]) : CallsFor(j, v, {"up_meta"}) # {}

\* download_single_video is at its `return result` or in its `except`.
AtVideoReturn(j) == pc[j] = "v_done" /\ vres[j] # <<>>

\* C31: a result returned by download_single_video with local_files_cleaned
\* has uploaded_to_gcp, and one with uploaded_to_gcp has the audio and the
\* sidecar of its video in the store, both uploads having returned success.
C31_CleanedImpliesUploadedImpliesStored ==
    \A j \in JobIds :
        AtVideoReturn(j) =>
            LET r == vres[j][1]
            IN  /\ Get(r, "local_files_cleaned", FALSE) => Get(r, "uploaded_to_gcp", FALSE)
                /\ Get(r, "uploaded_to_gcp", FALSE) =>
                      /\ File(j, Cur(j), "audio") \in remote
                      /\ File(j, Cur(j), "meta") \in remote
                      /\ CallsFor(j, Cur(j), UploadOps) # {}

C31_Witness ==
    \E j \in JobIds :
        /\ AtVideoReturn(j)
        /\ Get(vres[j][1], "local_files_cleaned", FALSE)
        /\ Get(vres[j][1], "uploaded_to_gcp", FALSE)

\* C32: a record has results only while its status is completed and has error
\* only while its status is failed.
C32_ResultsOnlyCompletedErrorOnlyFailed ==
    \A j \in JobIds :
        /\ job[j].results # <<>> => job[j].status = "completed"
        /\ job[j].error # "None" => job[j].status = "failed"

C32_Witness ==
    \E j \in JobIds :
        /\ WebJob(j) /\ j \in active_jobs
        /\ job[j].status = "completed" /\ job[j].results # <<>>

\* C33: the status of a record is set to completed only when it is finalizing,
\* the one status that comes right before completed in the forward order.
C33_CompletedAfterFinalizing ==
    [][\A j \in JobIds :
          (job'[j].status = "completed" /\ job[j].status # "completed") =>
              job[j].status = "finalizing"]_vars

\* The five patterns, as the specification lists them.
ClaimedPatterns ==
    { <<"/", "c", "h", "a", "n", "n", "e", "l", "/">>, <<"/", "c", "/">>,
      <<"/", "u", "s", "e", "r", "/">>, <<"/", "@">>,
      <<"/", "p", "l", "a", "y", "l", "i", "s", "t", "?">> }

IsClaimedChannel(url) == \E pattern \in ClaimedPatterns : Contains(Lower(url), pattern)

IsVideoUrl(url) == \E pattern \in VideoPatterns : Contains(url, pattern)

\* C34: process_url takes the channel branch exactly for the URLs whose
\* lower-cased text contains one of the five patterns and the video branch for
\* the others, a URL that also holds a single-video pattern included, and the
\* is_channel of process_channel_background is the branch process_url takes.
C34_DispatchByChannelPatterns ==
    /\ dispatched = "channel" => IsClaimedChannel(url_text)
    /\ dispatched = "video" => ~IsClaimedChannel(url_text)
    /\ (dispatched \in {"channel", "video"} /\ IsVideoUrl(url_text)
           /\ IsClaimedChannel(url_text)) => dispatched = "channel"
    /\ dispatched \in {"channel", "video"} => is_channel = <<dispatched = "channel">>

C34_Witness ==
    /\ dispatched = "channel"
    /\ is_channel = <<TRUE>>
    /\ IsVideoUrl(url_text)
    /\ Lower(url_text) # url_text
    /\ ~(\E pattern \in ClaimedPatterns : Contains(url_text, pattern))

\* download_single_video is working on a video.
VideoSteps == {"v_info", "v_download", "v_sidecar", "v_up_audio", "v_up_meta", "v_rm_audio",
               "v_rm_meta", "v_done"}

\* The session the pipeline of j is in: self.current_session.
CurrentSession(j) == sessions[j][Len(sessions[j])]

SuppliedName(j) == runner[j].kind = "process" /\ runner[j].session_name # <<>>

\* C35: for a /process job whose submitter supplied a session_name, the
\* pipeline is in the session of that name whenever it works on a video, and
\* the session_name of the job's result is the supplied name.
C35_SuppliedSessionNameUsed ==
    \A j \in JobIds :
        SuppliedName(j) =>
            /\ pc[j] \in VideoSteps => CurrentSession(j) = runner[j].session_name[1]
            /\ (result[j] # <<>> /\ "session_name" \in DOMAIN result[j][1]) =>
                  result[j][1].session_name = runner[j].session_name[1]

\* C36: the end_time of a record is unset while its status is not terminal,
\* and it is set when the status is completed or failed, at the latest once the
\* worker has returned.
C36_EndTimeSetIffTerminal ==
    \A j \in JobIds :
        WebJob(j) =>
            /\ ~Terminal(job[j].status) => job[j].end_time = "None"
            /\ (Terminal(job[j].status) /\ WorkerDone(j)) => job[j].end_time # "None"

\* How many entries of a partition are for the video at position v.
EntriesFor(partition, v) == Cardinality({k \in 1..Len(partition) : partition[k].url = v})

\* C37: in a channel run a video is never recorded more than once, counting
\* both partitions, and every video the loop has left behind is recorded once.
C37_RecordedExactlyOnce ==
    \A j \in JobIds :
        ChannelRun(j) =>
            \A v \in 1..Len(video_urls[j]) :
                LET n == EntriesFor(downloaded_videos[j], v) + EntriesFor(failed_videos[j], v)
                IN  /\ n <= 1
                    /\ v < Cur(j) => n = 1

\* C38: a record is completed only when process_url returned a result with
\* success=true for its job.
C38_CompletedOnlyOnSuccess ==
    \A j \in JobIds :
        (WebJob(j) /\ job[j].status = "completed") =>
            /\ result[j] # <<>>
            /\ Get(result[j][1], "success", FALSE)

====
